---- MODULE Spec2Model ----
(***************************************************************************)
(* AwareComponent: a base class for Custom Elements (attribute/property    *)
(* reflection, lifecycle, reference pass) and its html`` template          *)
(* compiler.  JavaScript strings are modelled as sequences of              *)
(* one-character strings, so that the regular expressions, the escaping    *)
(* and the HTML parsing are computed character by character.               *)
(***************************************************************************)
EXTENDS Integers, Sequences, FiniteSets, TLC

(***************************************************************************)
(* Bounds of the model.                                                    *)
(***************************************************************************)
\* connectedCallback runs at most this many times on one instance
MaxConnects == 2
\* how deep attributeChangedCallback may nest before the call stack is full
MaxStack == 3

(***************************************************************************)
(* JavaScript values and strings.                                          *)
(***************************************************************************)
Lower == <<"a","b","c","d","e","f","g","h","i","j","k","l","m",
           "n","o","p","q","r","s","t","u","v","w","x","y","z">>
Upper == <<"A","B","C","D","E","F","G","H","I","J","K","L","M",
           "N","O","P","Q","R","S","T","U","V","W","X","Y","Z">>
LowerSet == {Lower[i] : i \in 1..Len(Lower)}
UpperSet == {Upper[i] : i \in 1..Len(Upper)}
DigitSet == {"0","1","2","3","4","5","6","7","8","9"}
\* the character class [a-zA-Z0-9_]
WordChars == LowerSet \cup UpperSet \cup DigitSet \cup {"_"}
\* the character class [a-zA-Z0-9_-]
AttrNameChars == WordChars \cup {"-"}
\* white space as String.prototype.trim and the HTML tokenizer see it
WhiteSpace == {" ", "\n", "\t"}

\* String.prototype.toUpperCase on one character
ToUpperCase(c) ==
  IF c \in LowerSet THEN Upper[CHOOSE i \in 1..Len(Lower) : Lower[i] = c] ELSE c

\* the HTML parser's ASCII lower-casing of one character of a name
ToLowerCase(c) ==
  IF c \in UpperSet THEN Lower[CHOOSE i \in 1..Len(Upper) : Upper[i] = c] ELSE c

LowerCaseStr(s) == [i \in 1..Len(s) |-> ToLowerCase(s[i])]

\* JavaScript values: null, undefined, strings and numbers (a number is
\* kept as its decimal digits)
Null == [k |-> "null", s |-> <<>>]
Undefined == [k |-> "undefined", s |-> <<>>]
JStr(s) == [k |-> "string", s |-> s]
JNum(digits) == [k |-> "number", s |-> digits]

\* String(v), the conversion setAttribute, textContent and += apply
ToStr(v) ==
  CASE v.k = "null" -> <<"n","u","l","l">>
    [] v.k = "undefined" -> <<"u","n","d","e","f","i","n","e","d">>
    [] OTHER -> v.s

\* value == null
IsNullish(v) == v.k \in {"null", "undefined"}

\* whether pat occurs in s at index i
MatchesAt(s, i, pat) ==
  /\ i >= 1
  /\ i + Len(pat) - 1 <= Len(s)
  /\ \A j \in 1..Len(pat) : s[i + j - 1] = pat[j]

\* String.prototype.indexOf, 1-based; 0 when pat does not occur
IndexOf(s, pat) ==
  IF \E i \in 1..Len(s) : MatchesAt(s, i, pat)
  THEN CHOOSE i \in 1..Len(s) :
         MatchesAt(s, i, pat) /\ \A j \in 1..(i - 1) : ~MatchesAt(s, j, pat)
  ELSE 0

\* index just after the longest run of characters of class C starting at i
RunEnd(s, i, C) ==
  IF i > Len(s) THEN i ELSE
  CHOOSE e \in i..(Len(s) + 1) :
    /\ \A j \in i..(e - 1) : s[j] \in C
    /\ (e > Len(s) \/ s[e] \notin C)

\* index of the first character of class C at or after i; Len(s)+1 if none
FindChar(s, i, C) ==
  IF i > Len(s) THEN Len(s) + 1 ELSE
  CHOOSE e \in i..(Len(s) + 1) :
    /\ \A j \in i..(e - 1) : s[j] \notin C
    /\ (e > Len(s) \/ s[e] \in C)

\* str.replace(pat, rep) with a string pattern: the first occurrence only
ReplaceFirst(s, pat, rep) ==
  LET i == IndexOf(s, pat) IN
  IF i = 0 THEN s
  ELSE SubSeq(s, 1, i - 1) \o rep \o SubSeq(s, i + Len(pat), Len(s))

\* String.prototype.startsWith
StartsWith(s, pat) == MatchesAt(s, 1, pat)

\* str.replace(/c/g, rep) for a one-character pattern
RECURSIVE ReplaceAllChar(_, _, _)
ReplaceAllChar(s, c, rep) ==
  LET i == FindChar(s, 1, {c}) IN
  IF i > Len(s) THEN s
  ELSE SubSeq(s, 1, i - 1) \o rep \o ReplaceAllChar(SubSeq(s, i + 1, Len(s)), c, rep)

\* String.prototype.trim
Trim(s) ==
  LET a == RunEnd(s, 1, WhiteSpace)
      b == IF a > Len(s) THEN a - 1
           ELSE CHOOSE e \in a..Len(s) :
                  /\ s[e] \notin WhiteSpace
                  /\ \A j \in (e + 1)..Len(s) : s[j] \in WhiteSpace
  IN SubSeq(s, a, b)

\* name.replace(/-([a-z])/g, (_, char) => char.toUpperCase())
RECURSIVE CamelFrom(_, _)
CamelFrom(s, i) ==
  LET hits == {j \in i..(Len(s) - 1) : s[j] = "-" /\ s[j + 1] \in LowerSet} IN
  IF hits = {} THEN SubSeq(s, i, Len(s))
  ELSE LET j == CHOOSE h \in hits : \A m \in hits : h <= m
       IN SubSeq(s, i, j - 1) \o <<ToUpperCase(s[j + 1])>> \o CamelFrom(s, j + 2)

\* variant: the attribute name used as the property name, unconverted
CamelCaseVerbatim(name) == name
CamelCase(name) == CamelFrom(name, 1)

\* escapeHTML: five global replacements, & first
escapeHTML(str) ==
  LET s0 == ToStr(str)
      s1 == ReplaceAllChar(s0, "&", <<"&","a","m","p",";">>)
      s2 == ReplaceAllChar(s1, "<", <<"&","l","t",";">>)
      s3 == ReplaceAllChar(s2, ">", <<"&","g","t",";">>)
      s4 == ReplaceAllChar(s3, "\"", <<"&","q","u","o","t",";">>)
  IN ReplaceAllChar(s4, "'", <<"&","#","0","3","9",";">>)

(***************************************************************************)
(* The DOM.  A tree is the sequence of its nodes in document order, each   *)
(* with its depth; the descendants of a node are the nodes that follow it  *)
(* with a greater depth.  A text node has tag "#text" and carries text; an *)
(* element carries its attributes in order, as element.attributes does.    *)
(***************************************************************************)
TextTag == <<"#","t","e","x","t">>
\* elements that take no children
VoidTags == {<<"i","m","g">>, <<"i","n","p","u","t">>, <<"b","r">>}

TextNode(t, d) == [tag |-> TextTag, attrs |-> <<>>, text |-> t, depth |-> d]
ElementNode(tag, attrs, d) == [tag |-> tag, attrs |-> attrs, text |-> <<>>, depth |-> d]
IsElement(n) == n.tag # TextTag

HasAttr(n, name) == \E i \in 1..Len(n.attrs) : n.attrs[i].name = name

\* element.getAttribute(name): null when absent
GetAttr(n, name) ==
  IF HasAttr(n, name)
  THEN JStr(n.attrs[CHOOSE i \in 1..Len(n.attrs) : n.attrs[i].name = name].value)
  ELSE Null

\* element.setAttribute(name, value): the value is converted to a string
SetAttr(n, name, v) ==
  IF HasAttr(n, name)
  THEN [n EXCEPT !.attrs = [i \in 1..Len(n.attrs) |->
          IF n.attrs[i].name = name
          THEN [name |-> name, value |-> ToStr(v)] ELSE n.attrs[i]]]
  ELSE [n EXCEPT !.attrs = Append(@, [name |-> name, value |-> ToStr(v)])]

\* index just after the last descendant of node i
SubtreeEnd(dom, i) ==
  CHOOSE e \in (i + 1)..(Len(dom) + 1) :
    /\ \A j \in (i + 1)..(e - 1) : dom[j].depth > dom[i].depth
    /\ (e > Len(dom) \/ dom[e].depth <= dom[i].depth)

RECURSIVE ConcatText(_, _, _)
ConcatText(dom, i, e) ==
  IF i >= e THEN <<>>
  ELSE (IF IsElement(dom[i]) THEN <<>> ELSE dom[i].text) \o ConcatText(dom, i + 1, e)

\* element.textContent (getter): the text of all descendants
TextContent(dom, i) == ConcatText(dom, i + 1, SubtreeEnd(dom, i))

\* element.textContent = v: all children are replaced by one text node
\* (by none when the string is empty)
SetTextContent(dom, i, v) ==
  LET e == SubtreeEnd(dom, i)
      t == ToStr(v)
      kid == IF t = <<>> THEN <<>> ELSE <<TextNode(t, dom[i].depth + 1)>>
  IN SubSeq(dom, 1, i) \o kid \o SubSeq(dom, e, Len(dom))

\* replace node i, keeping the rest of the tree
SetNode(dom, i, n) == [dom EXCEPT ![i] = n]

(***************************************************************************)
(* The HTML fragment parser behind template.innerHTML, for the markup the  *)
(* templates use: start tags with quoted, unquoted or empty attributes,    *)
(* end tags, void elements, text and the five character references that    *)
(* escapeHTML produces.                                                    *)
(***************************************************************************)
AsciiLetters == LowerSet \cup UpperSet

IsStartTagAt(s, i) ==
  i + 1 <= Len(s) /\ s[i] = "<" /\ s[i + 1] \in AsciiLetters

IsEndTagAt(s, i) ==
  i + 2 <= Len(s) /\ s[i] = "<" /\ s[i + 1] = "/" /\ s[i + 2] \in AsciiLetters

\* character references in text and attribute values
RECURSIVE DecodeEntities(_)
DecodeEntities(s) ==
  LET i == FindChar(s, 1, {"&"})
      r == SubSeq(s, i, Len(s))
      pre == SubSeq(s, 1, i - 1)
  IN IF i > Len(s) THEN s
     ELSE IF MatchesAt(r, 1, <<"&","a","m","p",";">>) THEN pre \o <<"&">> \o DecodeEntities(SubSeq(r, 6, Len(r)))
     ELSE IF MatchesAt(r, 1, <<"&","l","t",";">>) THEN pre \o <<"<">> \o DecodeEntities(SubSeq(r, 5, Len(r)))
     ELSE IF MatchesAt(r, 1, <<"&","g","t",";">>) THEN pre \o <<">">> \o DecodeEntities(SubSeq(r, 5, Len(r)))
     ELSE IF MatchesAt(r, 1, <<"&","q","u","o","t",";">>) THEN pre \o <<"\"">> \o DecodeEntities(SubSeq(r, 7, Len(r)))
     ELSE IF MatchesAt(r, 1, <<"&","#","0","3","9",";">>) THEN pre \o <<"'">> \o DecodeEntities(SubSeq(r, 7, Len(r)))
     ELSE pre \o <<"&">> \o DecodeEntities(SubSeq(r, 2, Len(r)))

\* the attributes of a start tag from index i on: [attrs, next], where next
\* is the index after the closing > (beyond Len(s)+1 when the tag never ends)
RECURSIVE ReadAttrs(_, _, _)
ReadAttrs(s, i, attrs) ==
  IF i > Len(s) THEN [attrs |-> attrs, next |-> Len(s) + 2]
  ELSE IF s[i] \in WhiteSpace \cup {"/"} THEN ReadAttrs(s, i + 1, attrs)
  ELSE IF s[i] = ">" THEN [attrs |-> attrs, next |-> i + 1]
  ELSE
    LET ne == FindChar(s, i + 1, WhiteSpace \cup {"/", ">", "="})
        name == LowerCaseStr(SubSeq(s, i, ne - 1))
        quoted == ne + 1 <= Len(s) /\ s[ne] = "=" /\ s[ne + 1] \in {"\"", "'"}
        bare == ne <= Len(s) /\ s[ne] = "=" /\ ~quoted
        ve == IF quoted THEN FindChar(s, ne + 2, {s[ne + 1]})
              ELSE IF bare THEN FindChar(s, ne + 1, WhiteSpace \cup {">"})
              ELSE ne
        value == IF quoted THEN DecodeEntities(SubSeq(s, ne + 2, ve - 1))
                 ELSE IF bare THEN DecodeEntities(SubSeq(s, ne + 1, ve - 1))
                 ELSE <<>>
        next == IF quoted THEN ve + 1 ELSE ve
        \* a second attribute of the same name is dropped
        seen == \E j \in 1..Len(attrs) : attrs[j].name = name
    IN ReadAttrs(s, next,
                 IF seen THEN attrs ELSE Append(attrs, [name |-> name, value |-> value]))

\* the stack of open elements after an end tag: every element down to the
\* innermost open element of that name is closed; an end tag that matches
\* no open element is ignored
CloseTag(stack, name) ==
  IF \E j \in 1..Len(stack) : stack[j] = name
  THEN SubSeq(stack, 1,
         (CHOOSE j \in 1..Len(stack) :
            stack[j] = name /\ \A m \in (j + 1)..Len(stack) : stack[m] # name) - 1)
  ELSE stack

RECURSIVE ParseFrom(_, _, _, _)
ParseFrom(s, i, stack, acc) ==
  IF i > Len(s) THEN acc
  ELSE IF IsEndTagAt(s, i) THEN
    LET ne == FindChar(s, i + 2, WhiteSpace \cup {"/", ">"})
        name == LowerCaseStr(SubSeq(s, i + 2, ne - 1))
        close == FindChar(s, ne, {">"})
    IN ParseFrom(s, close + 1, CloseTag(stack, name), acc)
  ELSE IF IsStartTagAt(s, i) THEN
    LET ne == FindChar(s, i + 1, WhiteSpace \cup {"/", ">"})
        tag == LowerCaseStr(SubSeq(s, i + 1, ne - 1))
        rest == ReadAttrs(s, ne, <<>>)
    IN IF rest.next > Len(s) + 1 THEN acc
       ELSE ParseFrom(s, rest.next,
                      IF tag \in VoidTags THEN stack ELSE Append(stack, tag),
                      Append(acc, ElementNode(tag, rest.attrs, Len(stack) + 1)))
  ELSE
    LET starts == {j \in (i + 1)..Len(s) : IsStartTagAt(s, j) \/ IsEndTagAt(s, j)}
        e == IF starts = {} THEN Len(s) + 1
             ELSE CHOOSE j \in starts : \A m \in starts : j <= m
    IN ParseFrom(s, e, stack,
                 Append(acc, TextNode(DecodeEntities(SubSeq(s, i, e - 1)), Len(stack) + 1)))

\* template.innerHTML = str; template.content.cloneNode(true)
ParseFragment(str) == ParseFrom(str, 1, <<>>, <<>>)

(***************************************************************************)
(* The template compiler html``.                                           *)
(***************************************************************************)
\* templates.forEach((tpl, i) => { str += tpl; if (i < values.length) str += values[i] })
RECURSIVE Interpolate(_, _, _)
Interpolate(templates, values, i) ==
  IF i > Len(templates) THEN <<>>
  ELSE templates[i]
       \o (IF i <= Len(values) THEN ToStr(values[i]) ELSE <<>>)
       \o Interpolate(templates, values, i + 1)

\* variant: the attribute name matched by [a-zA-Z0-9_]+, without the hyphen
AttrMatchAtNoHyphen(s, i) ==
  LET ne == RunEnd(s, i, WordChars)
      ve == RunEnd(s, ne + 4, WordChars)
      ok == /\ ne > i
            /\ MatchesAt(s, ne, <<"=","\"","(","{">>)
            /\ ve > ne + 4
            /\ MatchesAt(s, ve, <<"}",")","\"">>)
  IN IF ok
     THEN [ok |-> TRUE, full |-> SubSeq(s, i, ve + 2), attr |-> SubSeq(s, i, ne - 1),
           variable |-> SubSeq(s, ne + 4, ve - 1), next |-> ve + 3]
     ELSE [ok |-> FALSE, full |-> <<>>, attr |-> <<>>, variable |-> <<>>, next |-> i + 1]

\* one match of /([a-zA-Z0-9_-]+)="\(\{([a-zA-Z0-9_]+)\}\)"/ starting at i:
\* [ok, full, attr, variable, next]
AttrMatchAt(s, i) ==
  LET ne == RunEnd(s, i, AttrNameChars)
      ve == RunEnd(s, ne + 4, WordChars)
      ok == /\ ne > i
            /\ MatchesAt(s, ne, <<"=","\"","(","{">>)
            /\ ve > ne + 4
            /\ MatchesAt(s, ve, <<"}",")","\"">>)
  IN IF ok
     THEN [ok |-> TRUE, full |-> SubSeq(s, i, ve + 2), attr |-> SubSeq(s, i, ne - 1),
           variable |-> SubSeq(s, ne + 4, ve - 1), next |-> ve + 3]
     ELSE [ok |-> FALSE, full |-> <<>>, attr |-> <<>>, variable |-> <<>>, next |-> i + 1]

\* [...str.matchAll(attrRegex)]: the matches from left to right
RECURSIVE AttrMatches(_, _)
AttrMatches(s, i) ==
  LET hits == {j \in i..Len(s) : AttrMatchAt(s, j).ok} IN
  IF hits = {} THEN <<>>
  ELSE LET m == AttrMatchAt(s, CHOOSE h \in hits : \A j \in hits : h <= j)
       IN <<m>> \o AttrMatches(s, m.next)

\* attrMatches.forEach(([full, attr, variable]) => str = str.replace(full, replacement))
RECURSIVE ReplaceAttrs(_, _, _)
ReplaceAttrs(s, matches, i) ==
  IF i > Len(matches) THEN s
  ELSE LET m == matches[i]
           replacement == m.attr \o <<"=","\"","\""," ","d","a","t","a","-","r","e","f","-">> \o m.attr \o <<"=","\"">>
                          \o m.variable \o <<"\""," ","d","a","t","a","-","r","e","f">>
       IN ReplaceAttrs(ReplaceFirst(s, m.full, replacement), matches, i + 1)

\* variant: the identifier matched by [a-z]+
ContentMatchAtLower(s, i) ==
  /\ MatchesAt(s, i, <<"(","{">>)
  /\ RunEnd(s, i + 2, LowerSet) > i + 2
  /\ MatchesAt(s, RunEnd(s, i + 2, LowerSet), <<"}",")">>)

\* str.replace(/\(\{([a-zA-Z0-9_]+)\}\)/g, (_, key) => `<span data-ref="${key}"></span>`)
\* whether /\(\{([a-zA-Z0-9_]+)\}\)/ matches at index i
ContentMatchAt(s, i) ==
  /\ MatchesAt(s, i, <<"(","{">>)
  /\ RunEnd(s, i + 2, WordChars) > i + 2
  /\ MatchesAt(s, RunEnd(s, i + 2, WordChars), <<"}",")">>)

RECURSIVE ReplaceContent(_, _)
ReplaceContent(s, i) ==
  LET hits == {j \in i..Len(s) : ContentMatchAt(s, j)} IN
  IF hits = {} THEN SubSeq(s, i, Len(s))
  ELSE LET j == CHOOSE h \in hits : \A m \in hits : h <= m
           ve == RunEnd(s, j + 2, WordChars)
       IN SubSeq(s, i, j - 1)
          \o <<"<","s","p","a","n"," ","d","a","t","a","-","r","e","f","=","\"">> \o SubSeq(s, j + 2, ve - 1) \o <<"\"",">","<","/","s","p","a","n",">">>
          \o ReplaceContent(s, ve + 2)

\* the markup html`` hands to the parser
Markup(templates, values) ==
  LET str == Interpolate(templates, values, 1)
  IN ReplaceContent(ReplaceAttrs(str, AttrMatches(str, 1), 1), 1)

\* html(templates, ...values): the fragment
html(templates, values) == ParseFragment(Trim(Markup(templates, values)))

(***************************************************************************)
(* The component classes the base class is exercised with.                 *)
(*                                                                         *)
(* UserCard is the playground component: it observes name and email, has   *)
(* an email accessor on its own prototype whose setter writes the email    *)
(* attribute of the host and of the first div, and whose getter reads the  *)
(* host attribute.  Its template keeps the elements that carry bindings    *)
(* (the buttons and the input, which carry none, are left out).            *)
(*                                                                         *)
(* ProfileCard is the README's component (observedItems user-name and      *)
(* age) with a content marker per property and an image marker for a       *)
(* property scripts assign.  One of its observed attributes may have a     *)
(* spying accessor (a setter that records the call and stores the value, a *)
(* getter that returns it) defined on the class itself ("proto"), on a     *)
(* base class between it and AwareComponent ("chain") or on the instance   *)
(* ("instance").                                                           *)
(***************************************************************************)
n_name == <<"n","a","m","e">>
n_email == <<"e","m","a","i","l">>
n_userName == <<"u","s","e","r","N","a","m","e">>
n_user_name == <<"u","s","e","r","-","n","a","m","e">>
n_age == <<"a","g","e">>
n_avatar == <<"a","v","a","t","a","r">>
n_div == <<"d","i","v">>
n_img == <<"i","m","g">>
n_src == <<"s","r","c">>
n_data_ref == <<"d","a","t","a","-","r","e","f">>
n_data_ref_ == <<"d","a","t","a","-","r","e","f","-">>
n_data_value == <<"d","a","t","a","-","v","a","l","u","e">>

\* the strings attributes and properties are set to: plain text and markup
ValA == <<"A","d","a">>
ValB == <<"<","x",">">>
Seven == JNum(<<"7">>)

PropNames == {n_name, n_email, n_userName, n_user_name, n_age, n_avatar}
AttrNames == {n_name, n_email, n_user_name, n_age}

\* static observedItems
observedItems(c) ==
  IF c.kind = "UserCard" THEN {n_name, n_email} ELSE {n_user_name, n_age}

\* html`...` of render(): the static chunks and the interpolated properties
UserCardTemplates ==
  << <<"\n","<","d","i","v"," ","c","l","a","s","s","=","\"","u","s","e","r","-","c","a","r","d","\""," ","t","i","t","l","e","=","\"","(","{","n","a","m","e","}",")","\""," ","e","m","a","i","l","=","\"","(","{","}",")","\"",">","\n","<","h","2",">">>,
     <<"<","/","h","2",">","\n","<","p",">","(","{","e","m","a","i","l","}",")","<","/","p",">","\n","<","/","d","i","v",">">> >>
ProfileCardTemplates ==
  << <<"\n","<","d","i","v",">","\n","<","h","1",">","(","{","u","s","e","r","N","a","m","e","}",")","<","/","h","1",">","\n","<","p",">","(","{","a","g","e","}",")","<","/","p",">","\n","<","i","m","g"," ","d","a","t","a","-","r","e","f","=","\"","a","v","a","t","a","r","\"",">","\n","<","/","d","i","v",">">> >>

renderTemplates(c) ==
  IF c.kind = "UserCard" THEN UserCardTemplates ELSE ProfileCardTemplates
\* ${this.name} in UserCard
renderValues(c) ==
  IF c.kind = "UserCard" THEN <<n_name>> ELSE <<>>

\* the properties a script assigns directly, and the values it assigns
Assignable(c) ==
  IF c.kind = "UserCard"
  THEN {<<n_name, JStr(ValA)>>, <<n_name, Null>>, <<n_email, JStr(ValA)>>, <<n_email, JStr(ValB)>>}
  ELSE {<<n_avatar, Seven>>, <<n_avatar, Null>>}

\* where the class defines an accessor named prop: "none", "proto", "chain"
\* or "instance"
AccessorAt(c, prop) ==
  IF c.kind = "UserCard" THEN (IF prop = n_email THEN "proto" ELSE "none")
  ELSE IF prop = c.accName THEN c.accWhere ELSE "none"

\* style texts: static cssText of the classes, and what scripts pass to
\* decorate
CssCard == <<"d","i","v","{","}">>
CssA == <<"p","{","}">>
CssB == <<"h","2","{","}">>

\* an array of style texts
JArr(texts) == [k |-> "array", s |-> texts]

\* UserCard defines onInit and onConnected; a ProfileCard defines all three
\* hooks, except the one with the age accessor, which overrides the
\* inherited hooks with undefined
AllHooks == {"onInit", "onConnected", "onAttributeChanged"}
\* both classes keep the default useShadow and set static cssText to a string
Classes ==
  {[kind |-> "UserCard", accName |-> <<>>, accWhere |-> "none",
    hooks |-> {"onInit", "onConnected"}, useShadow |-> TRUE, cssText |-> JStr(CssCard)],
   [kind |-> "ProfileCard", accName |-> <<>>, accWhere |-> "none", hooks |-> AllHooks,
    useShadow |-> TRUE, cssText |-> JStr(CssCard)],
   [kind |-> "ProfileCard", accName |-> n_age, accWhere |-> "chain", hooks |-> {},
    useShadow |-> TRUE, cssText |-> JStr(CssCard)]}
  \cup
  {[kind |-> "ProfileCard", accName |-> n_user_name, accWhere |-> w, hooks |-> AllHooks,
    useShadow |-> TRUE, cssText |-> JStr(CssCard)] :
      w \in {"proto", "chain", "instance"}}

\* classes that differ in their statics useShadow and cssText: unset (null),
\* the empty string, a string, an array of strings
StyledClasses ==
  {[kind |-> "ProfileCard", accName |-> <<>>, accWhere |-> "none", hooks |-> AllHooks,
    useShadow |-> u, cssText |-> c] :
      u \in BOOLEAN,
      c \in {Null, JStr(<<>>), JStr(CssCard), JArr(<<CssCard, CssA>>)}}

(***************************************************************************)
(* State.                                                                  *)
(***************************************************************************)
VARIABLES
  cls,            \* the class of the instance (fixed at construction)
  props,          \* own data properties (and the spying accessor's store)
  attrs,          \* the host element's attributes; Null when absent
  dom,            \* the content of $root
  isInitialized,  \* _isInitialized
  isConnected,    \* _isConnected
  connects,       \* how many times connectedCallback has run
  trace,          \* what the last callback did, step by step
  reflected,      \* per attribute, the value its last change reflected
  last,           \* the last call made on the instance and its arguments
  sheets,         \* shadowRoot.adoptedStyleSheets
  compiled        \* the last call of html``: its arguments and its fragment

vars == <<cls, props, attrs, dom, isInitialized, isConnected, connects,
          trace, reflected, last, sheets, compiled>>

\* the instance as the methods below thread it
This ==
  [props |-> props, attrs |-> attrs, dom |-> dom, init |-> isInitialized,
   conn |-> isConnected, refl |-> reflected,
   trace |-> <<>>, err |-> FALSE, depth |-> 0]

\* one step of a callback, with the lifecycle flags as they are at that step
Ev(S, e, n, v) ==
  [S EXCEPT !.trace = Append(@, [ev |-> e, name |-> n, value |-> v,
                                 init |-> S.init, conn |-> S.conn])]

\* typeof this.onInit / onConnected / onAttributeChanged === 'function'
HookDefined(c, hook) == hook \in c.hooks

\* Object.getOwnPropertyDescriptor(Object.getPrototypeOf(this), name)?.set
OwnProtoSetter(c, name) == AccessorAt(c, name) = "proto"

\* this[prop]
GetProp(S, prop) ==
  IF prop \notin PropNames THEN Undefined
  ELSE IF cls.kind = "UserCard" /\ prop = n_email THEN S.attrs[n_email]
  ELSE S.props[prop]

(***************************************************************************)
(* updateReferences                                                        *)
(***************************************************************************)
IsMarker(n) == IsElement(n) /\ HasAttr(n, n_data_ref)

\* the names of the data-ref-<attr> attributes of an element, in order
CompanionNames(n) ==
  SelectSeq([i \in 1..Len(n.attrs) |-> n.attrs[i].name],
            LAMBDA a : StartsWith(a, n_data_ref_))

\* attributeReferences.forEach(attr => { ... element.setAttribute(key, value) })
RECURSIVE UpdateCompanions(_, _, _, _)
UpdateCompanions(S, n, names, i) ==
  IF i > Len(names) THEN n
  ELSE LET key == ReplaceFirst(names[i], n_data_ref_, <<>>)
           prop == GetAttr(n, names[i])
           value == GetProp(S, prop.s)
       IN UpdateCompanions(S,
            IF value # Undefined THEN SetAttr(n, key, value) ELSE n,
            names, i + 1)

\* variant: an img treated like any other element
UpdateContentTextOnly(d, i, value) ==
  SetTextContent(SetNode(d, i, SetAttr(d[i], n_data_value, value)), i, value)

\* the content branch: data-value and src for an img, data-value and
\* textContent for any other element
UpdateContent(d, i, value) ==
  IF d[i].tag = n_img
  THEN SetNode(d, i, SetAttr(SetAttr(d[i], n_data_value, value), n_src, value))
  ELSE SetTextContent(SetNode(d, i, SetAttr(d[i], n_data_value, value)), i, value)

\* variant: the key is ignored
FilteredOutNever(property, changedAttribute) == FALSE

\* changedAttribute && property !== changedAttribute
FilteredOut(property, changedAttribute) ==
  /\ changedAttribute.k = "string"
  /\ changedAttribute.s # <<>>
  /\ property # changedAttribute.s

\* variant: the key is tested before the companion attributes are handled
UpdateMarkerKeyFirst(S, d, i, changedAttribute) ==
  LET property == GetAttr(d[i], n_data_ref).s
      value == GetProp(S, property)
  IN IF FilteredOut(property, changedAttribute) THEN d
     ELSE IF property = <<>>
     THEN SetNode(d, i, UpdateCompanions(S, d[i], CompanionNames(d[i]), 1))
     ELSE IF IsNullish(value) THEN d
     ELSE UpdateContent(d, i, value)

\* the body of references.forEach for the element at index i
UpdateMarker(S, d, i, changedAttribute) ==
  LET property == GetAttr(d[i], n_data_ref).s
      value == GetProp(S, property)
  IN IF property = <<>>
     THEN SetNode(d, i, UpdateCompanions(S, d[i], CompanionNames(d[i]), 1))
     ELSE IF FilteredOut(property, changedAttribute) THEN d
     ELSE IF IsNullish(value) THEN d
     ELSE UpdateContent(d, i, value)

\* references.forEach over the elements selectAll('[data-ref]') returned; an
\* element an earlier textContent assignment has detached no longer shows
RECURSIVE PassFrom(_, _, _, _)
PassFrom(S, d, i, changedAttribute) ==
  LET ms == {j \in i..Len(d) : IsMarker(d[j])} IN
  IF ms = {} THEN d
  ELSE LET j == CHOOSE m \in ms : \A o \in ms : m <= o
       IN PassFrom(S, UpdateMarker(S, d, j, changedAttribute), j + 1, changedAttribute)

updateReferences(S, changedAttribute) ==
  LET S1 == Ev(S, "updateReferences", <<>>, changedAttribute)
  IN [S1 EXCEPT !.dom = PassFrom(S1, S1.dom, 1, changedAttribute)]

(***************************************************************************)
(* attributeChangedCallback, property assignment and the host's            *)
(* setAttribute, which call one another                                    *)
(***************************************************************************)
\* this.select("div"): the index of the first div of the root, 0 for null
SelectDiv(d) ==
  LET ds == {j \in 1..Len(d) : d[j].tag = n_div} IN
  IF ds = {} THEN 0 ELSE CHOOSE j \in ds : \A o \in ds : j <= o

RECURSIVE attributeChangedCallback(_, _, _, _)
RECURSIVE CallSetter(_, _, _)
RECURSIVE hostSetAttribute(_, _, _)

\* element.setAttribute(name, value) on the host: the attribute is set and,
\* for an observed attribute, the callback runs before setAttribute returns;
\* what the callback throws is reported, not thrown to the caller
hostSetAttribute(S, name, value) ==
  LET old == S.attrs[name]
      S1 == [S EXCEPT !.attrs[name] = JStr(ToStr(value))]
      S2 == attributeChangedCallback(S1, name, old, S1.attrs[name])
  IN IF name \notin observedItems(cls) THEN S1
     ELSE IF S2.err THEN [Ev(S2, "reported", name, value) EXCEPT !.err = FALSE]
     ELSE S2

\* variant: UserCard's setter writes the div's attribute only, not the host's
CallSetterDivOnly(S, prop, value) ==
  LET S1 == Ev(S, "setter", prop, value) IN
  IF cls.kind = "UserCard"
  THEN LET i == SelectDiv(S1.dom)
       IN IF i = 0 THEN [S1 EXCEPT !.err = TRUE]
          ELSE [S1 EXCEPT !.dom = SetNode(@, i, SetAttr(@[i], n_email, value))]
  ELSE [S1 EXCEPT !.props[prop] = value]

\* the accessor's setter: UserCard's email setter, or the spy
CallSetter(S, prop, value) ==
  LET S1 == Ev(S, "setter", prop, value) IN
  IF cls.kind = "UserCard"
  THEN LET S2 == hostSetAttribute(S1, n_email, value)
           i == SelectDiv(S2.dom)
       IN IF i = 0 THEN [S2 EXCEPT !.err = TRUE]
          ELSE [S2 EXCEPT !.dom = SetNode(@, i, SetAttr(@[i], n_email, value))]
  ELSE [S1 EXCEPT !.props[prop] = value]

\* this[prop] = value: an accessor found on the instance or anywhere on the
\* prototype chain takes the value; otherwise a data property is written
Assign(S, prop, value) ==
  IF AccessorAt(cls, prop) # "none" THEN CallSetter(S, prop, value)
  ELSE [Ev(S, "write", prop, value) EXCEPT !.props[prop] = value]

\* variant: no early return
NoChangeNever(oldValue, newValue) == FALSE

\* if (oldValue === newValue) return
NoChange(oldValue, newValue) == oldValue = newValue

\* a callback nested deeper than the call stack allows throws a RangeError
attributeChangedCallback(S, name, oldValue, newValue) ==
  IF NoChange(oldValue, newValue) THEN S
  ELSE IF S.depth >= MaxStack THEN [S EXCEPT !.err = TRUE]
  ELSE
    LET S0 == [Ev(S, "attributeChangedCallback", name, newValue)
                 EXCEPT !.refl[name] = newValue, !.depth = @ + 1]
        S1 == IF OwnProtoSetter(cls, name) THEN CallSetter(S0, name, newValue)
              ELSE Assign(S0, CamelCase(name), newValue)
        S2 == IF S1.err \/ ~HookDefined(cls, "onAttributeChanged") THEN S1
              ELSE Ev(S1, "onAttributeChanged", name, newValue)
        S3 == IF S2.err \/ ~S2.conn THEN S2
              ELSE updateReferences(S2, JStr(name))
    IN [S3 EXCEPT !.depth = S.depth]

(***************************************************************************)
(* render and connectedCallback                                            *)
(***************************************************************************)
\* variant: the fragment replaces the content of the root
SetTemplateReplacing(S, value) == [S EXCEPT !.dom = value]

\* set template(value): this.$root.appendChild(value)
SetTemplate(S, value) == [S EXCEPT !.dom = @ \o value]

\* the subclass's render(): this.template = html`...`
render(S) ==
  LET vals == [i \in 1..Len(renderValues(cls)) |-> GetProp(S, renderValues(cls)[i])]
  IN SetTemplate(Ev(S, "render", <<>>, Undefined), html(renderTemplates(cls), vals))

\* variant: the connected flag and hook first, then render and the pass
connectedCallbackConnectedFirst(S) ==
  LET S1 == Ev([S EXCEPT !.conn = TRUE], "setConnected", <<>>, Undefined)
      S2 == IF HookDefined(cls, "onConnected")
            THEN Ev(S1, "onConnected", <<>>, Undefined) ELSE S1
  IN updateReferences(render(S2), Null)

\* variant: render without the reference pass
connectedCallbackNoPass(S) ==
  LET S1 == Ev([S EXCEPT !.init = TRUE], "setInitialized", <<>>, Undefined)
      S2 == IF HookDefined(cls, "onInit") THEN Ev(S1, "onInit", <<>>, Undefined) ELSE S1
      S5 == Ev([render(S2) EXCEPT !.conn = TRUE], "setConnected", <<>>, Undefined)
  IN IF HookDefined(cls, "onConnected") THEN Ev(S5, "onConnected", <<>>, Undefined) ELSE S5

connectedCallback(S) ==
  LET S1 == Ev([S EXCEPT !.init = TRUE], "setInitialized", <<>>, Undefined)
      S2 == IF HookDefined(cls, "onInit") THEN Ev(S1, "onInit", <<>>, Undefined) ELSE S1
      S3 == render(S2)
      S4 == updateReferences(S3, Null)
      S5 == Ev([S4 EXCEPT !.conn = TRUE], "setConnected", <<>>, Undefined)
  IN IF HookDefined(cls, "onConnected") THEN Ev(S5, "onConnected", <<>>, Undefined) ELSE S5

(***************************************************************************)
(* decorate and the constructor                                            *)
(***************************************************************************)
\* new CSSStyleSheet(); sheet.replaceSync(text)
Sheet(text) == [text |-> text]

\* Array.isArray(css) ? css : [css]
CssArray(css) == IF css.k = "array" THEN css.s ELSE <<css.s>>

\* variant: the new sheets replace the adopted ones
decorateReplacing(adopted, css) ==
  [i \in 1..Len(CssArray(css)) |-> Sheet(CssArray(css)[i])]

\* decorate(css): adoptedStyleSheets = [...adoptedStyleSheets, ...newSheets]
decorate(adopted, css) ==
  adopted \o [i \in 1..Len(CssArray(css)) |-> Sheet(CssArray(css)[i])]

\* a value in a condition: null and the empty string are falsy, an array
\* (even an empty one) is truthy
Truthy(v) == ~IsNullish(v) /\ v # JStr(<<>>)

\* constructor(): the adopted sheets it leaves (none without a shadow root)
constructor(c) ==
  IF c.useShadow /\ Truthy(c.cssText) THEN decorate(<<>>, c.cssText) ELSE <<>>

\* no template compiled yet
NoFragment ==
  [input |-> [lead |-> FALSE, parts |-> <<>>], templates |-> <<>>, values |-> <<>>,
   done |-> FALSE, fragment |-> <<>>]

(***************************************************************************)
(* The actions: what the document and scripts do to the instance.          *)
(***************************************************************************)
NoCall == [op |-> "constructor", name |-> <<>>, old |-> Undefined,
           new |-> Undefined, conn |-> FALSE, threw |-> FALSE]

Call(op, name, old, new) ==
  [op |-> op, name |-> name, old |-> old, new |-> new, conn |-> isConnected,
   threw |-> FALSE]

\* the state after the call
Commit(S, l) ==
  /\ props' = S.props
  /\ attrs' = S.attrs
  /\ dom' = S.dom
  /\ isInitialized' = S.init
  /\ isConnected' = S.conn
  /\ reflected' = IF isConnected THEN [a \in AttrNames |-> Undefined] ELSE S.refl
  /\ trace' = S.trace
  /\ last' = [l EXCEPT !.threw = S.err]
  /\ cls' = cls
  /\ UNCHANGED <<sheets, compiled>>

\* the state after construction: an empty root, no attribute seen, the
\* style sheet of static cssText adopted
Constructed(classes) ==
  /\ cls \in classes
  /\ sheets = constructor(cls)
  /\ props = [p \in PropNames |-> Undefined]
  /\ attrs = [a \in AttrNames |-> Null]
  /\ dom = <<>>
  /\ isInitialized = FALSE
  /\ isConnected = FALSE
  /\ connects = 0
  /\ trace = <<>>
  /\ reflected = [a \in AttrNames |-> Undefined]
  /\ last = NoCall

Init == Constructed(Classes) /\ compiled = NoFragment

\* the values the document or a script sets an attribute to
AttrValues(name) ==
  IF name = n_age THEN {JStr(ValA)} ELSE {JStr(ValA), JStr(ValB)}

\* the document or a script sets an observed attribute
SetAttribute(name, value) ==
  /\ name \in observedItems(cls)
  /\ value \in AttrValues(name)
  /\ Commit(hostSetAttribute(This, name, value),
            Call("attributeChangedCallback", name, attrs[name], JStr(ToStr(value))))
  /\ UNCHANGED connects

\* a script removes an attribute that is present
RemoveAttribute(name) ==
  /\ name \in observedItems(cls)
  /\ attrs[name] # Null
  /\ LET S1 == [This EXCEPT !.attrs[name] = Null]
         S2 == attributeChangedCallback(S1, name, attrs[name], Null)
     IN Commit(S2, Call("attributeChangedCallback", name, attrs[name], Null))
  /\ UNCHANGED connects

\* the callback called directly, as a test does, with equal old and new
CallAttributeChanged(name, old, new) ==
  /\ name \in observedItems(cls)
  /\ old = new
  /\ Commit(attributeChangedCallback(This, name, old, new),
            Call("attributeChangedCallback", name, old, new))
  /\ UNCHANGED connects

\* the element is inserted into the document
Connect ==
  /\ connects < MaxConnects
  /\ connects' = connects + 1
  /\ Commit(connectedCallback(This), Call("connectedCallback", <<>>, Undefined, Undefined))

\* a script assigns a property
AssignProperty(prop, value) ==
  /\ <<prop, value>> \in Assignable(cls)
  /\ LET S1 == Assign(This, prop, value)
     IN Commit([S1 EXCEPT !.refl = [a \in AttrNames |->
                    IF AccessorAt(cls, prop) = "none" /\ CamelCase(a) = prop
                    THEN Undefined ELSE @[a]]],
               Call("assign", prop, Undefined, value))
  /\ UNCHANGED connects

\* the keys a script calls updateReferences with
Keys(c) ==
  IF c.kind = "UserCard" THEN {Null, JStr(n_email)} ELSE {Null, JStr(n_age)}

\* a script calls updateReferences, with or without a key
CallUpdateReferences(key) ==
  /\ key \in Keys(cls)
  /\ Commit(updateReferences(This, key), Call("updateReferences", <<>>, Undefined, key))
  /\ UNCHANGED connects


Next ==
  \/ \E name \in AttrNames, value \in {JStr(ValA), JStr(ValB)} : SetAttribute(name, value)
  \/ \E name \in AttrNames : RemoveAttribute(name)
  \/ \E name \in AttrNames, old \in {Null, JStr(ValA)}, new \in {Null, JStr(ValA)} :
        CallAttributeChanged(name, old, new)
  \/ Connect
  \/ \E prop \in PropNames, value \in {JStr(ValA), JStr(ValB), Seven, Null} :
        AssignProperty(prop, value)
  \/ \E key \in {Null, JStr(n_email), JStr(n_age)} : CallUpdateReferences(key)

Spec == Init /\ [][Next]_vars

(***************************************************************************)
(* Reading the state.                                                      *)
(***************************************************************************)
\* this[prop] now
PropNow(prop) == GetProp(This, prop)

\* the indices of the elements of a tree, in document order
ElementIdx(d) ==
  SelectSeq([i \in 1..Len(d) |-> i], LAMBDA i : IsElement(d[i]))

\* a content marker: data-ref names a property
IsContentMarker(n) == IsMarker(n) /\ GetAttr(n, n_data_ref).s # <<>>
\* a companion-attribute marker: data-ref is empty
IsCompanionMarker(n) == IsMarker(n) /\ GetAttr(n, n_data_ref).s = <<>>

\* what a content marker displays: the src of an img, the text of any other
Displayed(d, i) ==
  IF d[i].tag = n_img THEN GetAttr(d[i], n_src) ELSE JStr(TextContent(d, i))

\* the content markers of the root bound to prop
ContentMarkersOf(d, prop) ==
  {i \in 1..Len(d) : IsContentMarker(d[i]) /\ GetAttr(d[i], n_data_ref).s = prop}

\* the property an attribute is documented to be reflected onto when it has
\* no setter: user-name -> userName, names without hyphen unchanged
PropertyOf(a) == IF a = n_user_name THEN n_userName ELSE a

\* the property a change of attribute a lands on: the accessor named like
\* the attribute when the class itself defines one, else PropertyOf(a)
TargetOf(a) == IF AccessorAt(cls, a) = "proto" THEN a ELSE PropertyOf(a)

TraceHas(e) == \E i \in 1..Len(trace) : trace[i].ev = e

AttributeChanged ==
  last.op = "attributeChangedCallback" /\ last.old # last.new

(***************************************************************************)
(* connectedCallback                                                       *)
(***************************************************************************)
Step(e, i, c) == [ev |-> e, name |-> <<>>, value |-> Undefined, init |-> i, conn |-> c]

\* the steps of one run, given the connected flag before it
ExpectedConnectTrace(c0) ==
  <<Step("setInitialized", TRUE, c0)>>
  \o (IF "onInit" \in cls.hooks THEN <<Step("onInit", TRUE, c0)>> ELSE <<>>)
  \o <<Step("render", TRUE, c0),
       [Step("updateReferences", TRUE, c0) EXCEPT !.value = Null]>>
  \o <<Step("setConnected", TRUE, TRUE)>>
  \o (IF "onConnected" \in cls.hooks THEN <<Step("onConnected", TRUE, TRUE)>> ELSE <<>>)

\* C1: every run of connectedCallback sets the initialized flag, calls onInit
\* if defined, calls render, runs the unrestricted reference pass, sets the
\* connected flag and calls onConnected if defined, in this order; on the
\* first run the connected flag is still false up to the pass and true when
\* onConnected runs.
C1_ConnectOrder ==
  last.op = "connectedCallback" => trace = ExpectedConnectTrace(connects > 1)

\* a first connect of a class with both hooks
C1_Witness ==
  /\ last.op = "connectedCallback"
  /\ connects = 1
  /\ Len(trace) = 6
  /\ trace[2].ev = "onInit" /\ ~trace[2].conn
  /\ trace[4].ev = "updateReferences" /\ ~trace[4].conn
  /\ trace[6].ev = "onConnected" /\ trace[6].conn

(***************************************************************************)
(* attributeChangedCallback                                                *)
(***************************************************************************)
\* C2: a call of attributeChangedCallback with oldValue equal to newValue
\* (null included) leaves every property and the whole root unchanged and
\* calls no setter, no hook and no reference pass, connected or not.
C2_NoOpUnchanged ==
  [][(last'.op = "attributeChangedCallback" /\ last'.old = last'.new)
       => (props' = props /\ attrs' = attrs /\ dom' = dom /\ trace' = <<>>)]_vars

\* an attribute of a connected component set again to the value it has
C2_Witness ==
  /\ last.op = "attributeChangedCallback"
  /\ last.old = JStr(ValA) /\ last.new = JStr(ValA)
  /\ isConnected
  /\ trace = <<>>

\* C3: when the instance or a class on its prototype chain defines a write
\* accessor named like the attribute, a change of the attribute calls that
\* accessor with the new value and writes no data property.
C3_AccessorInvoked ==
  (AttributeChanged /\ AccessorAt(cls, last.name) # "none")
    => /\ \E i \in 1..Len(trace) :
            trace[i].ev = "setter" /\ trace[i].name = last.name
            /\ trace[i].value = last.new
       /\ ~TraceHas("write")

\* C4: after a change of an attribute that has no setter, the property named
\* by the camel-cased attribute name equals the new value.
C4_CamelCasedProperty ==
  (AttributeChanged /\ AccessorAt(cls, last.name) = "none" /\ ~last.threw)
    => PropNow(PropertyOf(last.name)) = last.new

\* user-name changed to "<x>": userName is "<x>"
C4_Witness ==
  /\ AttributeChanged
  /\ last.name = n_user_name
  /\ AccessorAt(cls, n_user_name) = "none"
  /\ last.new = JStr(ValB)
  /\ props[n_userName] = JStr(ValB)

\* the change reached the property: through the accessor of that name when
\* there is one, else as the property's value
Reflects(a, v) ==
  IF AccessorAt(cls, TargetOf(a)) # "none"
  THEN \E i \in 1..Len(trace) :
         trace[i].ev = "setter" /\ trace[i].name = TargetOf(a) /\ trace[i].value = v
  ELSE PropNow(TargetOf(a)) = v

\* C5: a change of an observed attribute before the first connection
\* reflects the value onto the property and runs no reference pass; when the
\* first connectedCallback has completed, every content marker render
\* created for that property displays the last value set.
C5_PreConnectChanges ==
  /\ (AttributeChanged /\ ~last.conn)
       => (Reflects(last.name, last.new) /\ ~TraceHas("updateReferences"))
  /\ (last.op = "connectedCallback" /\ connects = 1)
       => \A a \in observedItems(cls) :
            reflected[a].k = "string"
              => \A i \in ContentMarkersOf(dom, TargetOf(a)) :
                   Displayed(dom, i) = reflected[a]

\* email set to "Ada" before the first connect shows "Ada" in the email marker
C5_Witness ==
  /\ cls.kind = "UserCard"
  /\ last.op = "connectedCallback" /\ connects = 1
  /\ reflected[n_email] = JStr(ValA)
  /\ \E i \in ContentMarkersOf(dom, n_email) : TextContent(dom, i) = ValA

\* C6: a change of an observed attribute to a non-null value after the first
\* connect leaves every content marker bound to the property the attribute
\* is reflected onto displaying the new value.
C6_MarkersShowNewValue ==
  (AttributeChanged /\ last.conn /\ last.new.k = "string" /\ ~last.threw)
    => \A i \in ContentMarkersOf(dom, TargetOf(last.name)) :
         Displayed(dom, i) = last.new

(***************************************************************************)
(* updateReferences                                                        *)
(***************************************************************************)
\* the name of the attribute a data-ref-<attr> attribute mirrors onto
MirroredAttr(name) == SubSeq(name, Len(n_data_ref_) + 1, Len(name))

IsCompanionAttr(a) == StartsWith(a.name, n_data_ref_)

\* the element is bound to key: as a content marker, or by a companion
BoundTo(n, key) ==
  \/ IsContentMarker(n) /\ GetAttr(n, n_data_ref).s = key
  \/ /\ IsCompanionMarker(n)
     /\ \E j \in 1..Len(n.attrs) : IsCompanionAttr(n.attrs[j]) /\ n.attrs[j].value = key

\* element i1 of d1 and element i2 of d2 have the same attributes and text
SameElement(d1, i1, d2, i2) ==
  d1[i1].attrs = d2[i2].attrs /\ TextContent(d1, i1) = TextContent(d2, i2)

C8_NullishSkipped ==
  [][last'.op = "updateReferences"
       => LET e1 == ElementIdx(dom)
              e2 == ElementIdx(dom')
          IN /\ Len(e1) = Len(e2)
             /\ \A k \in 1..Len(e1) :
                  LET n == dom[e1[k]]
                      m == dom'[e2[k]]
                  IN /\ (IsContentMarker(n)
                         /\ IsNullish(PropNow(GetAttr(n, n_data_ref).s)))
                          => SameElement(dom, e1[k], dom', e2[k])
                     /\ IsCompanionMarker(n)
                          => \A j \in 1..Len(n.attrs) :
                               (IsCompanionAttr(n.attrs[j])
                                /\ IsNullish(PropNow(n.attrs[j].value)))
                                 => GetAttr(m, MirroredAttr(n.attrs[j].name))
                                      = GetAttr(n, MirroredAttr(n.attrs[j].name))]_vars

\* C9: after an unrestricted reference pass every marker whose property has
\* a non-null value v shows String(v): a content marker in its text (an img
\* in src) and in data-value, a companion binding in its target attribute.
C9_FullPassShowsValues ==
  (last.op = "connectedCallback" \/ (last.op = "updateReferences" /\ last.new = Null))
    => \A i \in 1..Len(dom) :
         /\ IsContentMarker(dom[i])
              => LET v == PropNow(GetAttr(dom[i], n_data_ref).s)
                 IN ~IsNullish(v)
                      => /\ Displayed(dom, i) = JStr(ToStr(v))
                         /\ GetAttr(dom[i], n_data_value) = JStr(ToStr(v))
         /\ IsCompanionMarker(dom[i])
              => \A j \in 1..Len(dom[i].attrs) :
                   IsCompanionAttr(dom[i].attrs[j])
                     => LET v == PropNow(dom[i].attrs[j].value)
                        IN ~IsNullish(v)
                             => GetAttr(dom[i], MirroredAttr(dom[i].attrs[j].name))
                                  = JStr(ToStr(v))

\* the number 7 assigned to avatar shows as src="7" after a full pass
C9_Witness ==
  /\ last.op = "updateReferences" /\ last.new = Null
  /\ props[n_avatar] = Seven
  /\ \E i \in ContentMarkersOf(dom, n_avatar) :
       GetAttr(dom[i], n_src) = JStr(<<"7">>) /\ GetAttr(dom[i], n_data_value) = JStr(<<"7">>)

(***************************************************************************)
(* html``                                                                  *)
(***************************************************************************)
\* the elements the templates themselves contain
TemplateTags ==
  IF cls.kind = "UserCard" THEN {n_div, <<"h","2">>, <<"p">>, <<"s","p","a","n">>}
  ELSE {n_div, <<"h","1">>, <<"p">>, <<"s","p","a","n">>, n_img}

\* C10: an interpolated value is escaped before parsing: it shows as text
\* and creates no element in the fragment render appends.
C10_ValuesEscaped ==
  last.op = "connectedCallback"
    => /\ \A i \in 1..Len(dom) : IsElement(dom[i]) => dom[i].tag \in TemplateTags
       /\ cls.kind = "UserCard"
            => LET hs == {i \in 1..Len(dom) : dom[i].tag = <<"h","2">>}
                   h == CHOOSE i \in hs : \A j \in hs : j <= i
               IN TextContent(dom, h) = ToStr(PropNow(n_name))


(***************************************************************************)
(* decorate called by scripts: the specification of the adopted style      *)
(* sheets.  The instance is of a class with any of the useShadow/cssText   *)
(* statics; scripts then call decorate with a string or an array.          *)
(***************************************************************************)
\* decorate is called while the adopted list has room for the new sheets
MaxSheets == 4

\* what scripts pass to decorate
CssArgs ==
  {JStr(CssA), JStr(CssB), JStr(CssCard),
   JArr(<<CssA, CssB>>), JArr(<<CssB, CssB>>), JArr(<<>>)}

\* this.decorate(css); without a shadow root this.shadowRoot is null and the
\* assignment to its adoptedStyleSheets throws a TypeError
Decorate(css) ==
  /\ Len(sheets) + Len(CssArray(css)) <= MaxSheets
  /\ sheets' = IF cls.useShadow THEN decorate(sheets, css) ELSE sheets
  /\ last' = [Call("decorate", <<>>, Undefined, css) EXCEPT !.threw = ~cls.useShadow]
  /\ UNCHANGED <<cls, props, attrs, dom, isInitialized, isConnected, connects,
                 trace, reflected, compiled>>

InitDecorate == Constructed(StyledClasses) /\ compiled = NoFragment

NextDecorate == \E css \in CssArgs : Decorate(css)

SpecDecorate == InitDecorate /\ [][NextDecorate]_vars

\* the style texts of a decorate argument, in order
TextsOf(css) == IF css.k = "array" THEN css.s ELSE <<css.s>>

\* the style texts the constructor passes to decorate
StaticTexts(c) ==
  IF c.cssText.k = "null" \/ (c.cssText.k = "string" /\ c.cssText.s = <<>>)
  THEN <<>> ELSE TextsOf(c.cssText)

\* sheets q are sheets p followed by one sheet per text, in the texts' order
Appended(p, texts, q) ==
  /\ Len(q) = Len(p) + Len(texts)
  /\ \A i \in 1..Len(p) : q[i] = p[i]
  /\ \A i \in 1..Len(texts) : q[Len(p) + i].text = texts[i]

\* C11: on a component with a shadow root decorate only appends: the
\* constructor leaves one sheet per text of static cssText, and every later
\* call keeps the adopted sheets and adds one sheet per text passed, in
\* call order and array order.
C11_DecorateAppends ==
  /\ cls.useShadow => Appended(<<>>, StaticTexts(cls), sheets)
  /\ [][(last'.op = "decorate" /\ cls.useShadow)
          => Appended(sheets, TextsOf(last'.new), sheets')]_vars

\* two calls after a constructor that adopted an array: four sheets in the
\* order the texts were passed
C11_Witness ==
  /\ cls.cssText.k = "array" /\ cls.useShadow
  /\ last.op = "decorate" /\ last.new.k = "string" /\ last.new.s = CssA
  /\ sheets = <<Sheet(CssCard), Sheet(CssA), Sheet(CssB), Sheet(CssA)>>

(***************************************************************************)
(* The template setter                                                     *)
(***************************************************************************)
\* the elements of a tree in document order: tag and depth
Skeleton(d) ==
  LET e == ElementIdx(d) IN [k \in 1..Len(e) |-> <<d[e[k]].tag, d[e[k]].depth>>]

\* the children of the root: the nodes at depth 1, each with its tag
RootChildren(d) ==
  LET r == SelectSeq([i \in 1..Len(d) |-> i], LAMBDA i : d[i].depth = 1)
  IN [k \in 1..Len(r) |-> d[r[k]].tag]

\* the fragment render() compiles in the current state
RenderedFragment ==
  html(renderTemplates(cls),
       [i \in 1..Len(renderValues(cls)) |-> PropNow(renderValues(cls)[i])])

\* C12: assigning a fragment to template appends it: each connectedCallback
\* leaves the children and elements the root had in place, in order,
\* followed by those of the fragment render() assigned.
C12_TemplateAppends ==
  [][last'.op = "connectedCallback"
       => /\ RootChildren(dom') = RootChildren(dom) \o RootChildren(RenderedFragment)
          /\ Skeleton(dom') = Skeleton(dom) \o Skeleton(RenderedFragment)]_vars

\* connected twice: the root holds the template's div twice
C12_Witness ==
  /\ last.op = "connectedCallback" /\ connects = 2
  /\ Len(SelectSeq(RootChildren(dom), LAMBDA g : g = n_div)) = 2

SetterCalls(tr) == Cardinality({i \in 1..Len(tr) : tr[i].ev = "setter"})

\* the call ran to its end: nothing was thrown to the caller and no callback
\* ended in a reported exception
RanThrough(tr, l) == ~l.threw /\ \A i \in 1..Len(tr) : tr[i].ev # "reported"

\* a reference pass for the key ran during the last call
PassRan(tr, key) ==
  \E i \in 1..Len(tr) : tr[i].ev = "updateReferences" /\ tr[i].value = JStr(key)

\* the last call changed the email attribute from outside, or assigned email
EmailChanged(l) ==
  /\ cls.kind = "UserCard" /\ l.name = n_email
  /\ \/ l.op = "attributeChangedCallback" /\ l.old # l.new
     \/ l.op = "assign"

\* C16 as stated: an external change of email enters the setter once, an
\* assignment of email enters it twice, and the call runs through, with the
\* reference pass for email when the card is connected.
C16_SetterOnceOrTwice ==
  EmailChanged(last)
    => /\ SetterCalls(trace) = IF last.op = "assign" THEN 2 ELSE 1
       /\ RanThrough(trace, last)
       /\ last.conn => PassRan(trace, n_email)

\* how often the setter is entered: a change of the attribute to a string
\* enters it once, a removal twice (the setter writes the attribute "null",
\* which is one more change); an assignment enters it twice when it changes
\* the attribute and once when the attribute already holds the value
ExpectedSetterCalls(l) ==
  IF l.op = "assign"
  THEN (IF attrs[n_email] = JStr(ToStr(l.new)) THEN 1 ELSE 2)
  ELSE (IF l.new = Null THEN 2 ELSE 1)

\* C16: the setter and the callback stop calling one another: the setter is
\* entered once or twice as the case may be and never more; when the div
\* has been rendered the call runs through, with the reference pass for
\* email if the attribute changed, and when it has not the setter throws
\* before the callback is over.
C16_SetterRecursionEnds ==
  [][EmailChanged(last')
       => /\ SetterCalls(trace') = ExpectedSetterCalls(last')
          /\ RanThrough(trace', last') <=> SelectDiv(dom) # 0
          /\ (SelectDiv(dom) # 0 /\ attrs'[n_email] # attrs[n_email])
               => PassRan(trace', n_email)]_vars

\* email assigned on a connected card: the setter ran twice, the pass for
\* email ran, nothing was thrown
C16_Witness ==
  /\ EmailChanged(last) /\ last.op = "assign" /\ last.conn
  /\ SetterCalls(trace) = 2
  /\ PassRan(trace, n_email)
  /\ RanThrough(trace, last)

(***************************************************************************)
(* html`` called on its own: the specification of the template compiler.   *)
(* A template is described by its parts, the text handed to html`` is      *)
(* written from the description, and the fragment is what html returns.    *)
(***************************************************************************)
\* attribute bindings on one element, content placeholders in one element
MaxBinds == 2
MaxHoles == 1

\* identifiers [a-zA-Z0-9_]+ and attribute names [a-zA-Z0-9_-]+
Idents == {<<"x">>, <<"u","s","e","r","N","a","m","e">>, <<"a","_","1">>}
BindAttrs == {<<"t","i","t","l","e">>, <<"d","a","t","a","-","t","i","t","l","e">>, <<"A","l","t">>}
PartTags == {<<"p">>, n_img}

Binds == [k : BindAttrs, x : Idents]

SeqsUpTo(S, n) == UNION {[1..m -> S] : m \in 0..n}

\* the bindings of one element: no attribute name twice
BindSeqs ==
  {b \in SeqsUpTo(Binds, MaxBinds) :
     \A i, j \in 1..Len(b) : i # j => b[i].k # b[j].k}

\* an element with bindings and placeholders as its content (a void element
\* has no content); the tag <<>> stands for placeholders outside any element
Parts ==
  {e \in [tag : PartTags, binds : BindSeqs, holes : SeqsUpTo(Idents, MaxHoles)] :
     e.tag \in VoidTags => e.holes = <<>>}

BareParts == {[tag |-> <<>>, binds |-> <<>>, holes |-> <<x>>] : x \in Idents}

\* elements with exactly one binding and no content
OneBind == {e \in Parts : Len(e.binds) = 1 /\ e.holes = <<>>}

\* the templates compiled: one part, alone or after an interpolated value,
\* and two elements with one binding each (the same binding text twice when
\* they agree)
Inputs ==
  {[lead |-> l, parts |-> <<e>>] : l \in BOOLEAN, e \in Parts \cup BareParts}
  \cup {[lead |-> FALSE, parts |-> <<e1, e2>>] : e1 \in OneBind, e2 \in OneBind}

RECURSIVE BindText(_, _)
BindText(b, i) ==
  IF i > Len(b) THEN <<>>
  ELSE <<" ">> \o b[i].k \o <<"=","\"","(","{">> \o b[i].x \o <<"}",")","\"">> \o BindText(b, i + 1)

RECURSIVE HoleText(_, _)
HoleText(h, i) ==
  IF i > Len(h) THEN <<>>
  ELSE <<"(","{">> \o h[i] \o <<"}",")">> \o HoleText(h, i + 1)

PartText(e) ==
  IF e.tag = <<>> THEN <<"H","i"," ">> \o HoleText(e.holes, 1) \o <<"!">>
  ELSE <<"<">> \o e.tag \o <<" ","c","l","a","s","s","=","\"","c","\"">> \o BindText(e.binds, 1) \o <<">">>
       \o (IF e.tag \in VoidTags THEN <<>>
           ELSE HoleText(e.holes, 1) \o <<"<","/">> \o e.tag \o <<">">>)

RECURSIVE PartsText(_, _)
PartsText(parts, i) ==
  IF i > Len(parts) THEN <<>>
  ELSE <<"\n"," "," ">> \o PartText(parts[i]) \o PartsText(parts, i + 1)

\* the chunks and values of html`...`: with a lead, html`<i>${"Ada"}</i>...`
TemplatesOf(input) ==
  IF input.lead THEN <<<<"<","i",">">>, <<"<","/","i",">">> \o PartsText(input.parts, 1) \o <<"\n">>>>
  ELSE <<PartsText(input.parts, 1) \o <<"\n">>>>
ValuesOf(input) == IF input.lead THEN <<JStr(ValA)>> ELSE <<>>

\* a fresh instance and a template about to be compiled
InitHtml ==
  /\ Constructed({c \in Classes : c.kind = "UserCard"})
  /\ compiled \in {[input |-> i, templates |-> TemplatesOf(i), values |-> ValuesOf(i),
                     done |-> FALSE, fragment |-> <<>>] : i \in Inputs}

\* html`...`
Compile ==
  /\ ~compiled.done
  /\ compiled' = [compiled EXCEPT !.done = TRUE,
                                  !.fragment = html(compiled.templates, compiled.values)]
  /\ UNCHANGED <<cls, props, attrs, dom, isInitialized, isConnected, connects,
                 trace, reflected, last, sheets>>

NextHtml == Compile

SpecHtml == InitHtml /\ [][NextHtml]_vars

\* element.getAttribute(name) on an HTML element: the name is lowercased
GetAttribute(n, name) == GetAttr(n, LowerCaseStr(name))

\* how many elements of the fragment carry data-ref="x"
MarkersFor(d, x) ==
  Cardinality({i \in 1..Len(d) : IsElement(d[i]) /\ GetAttr(d[i], n_data_ref) = JStr(x)})

\* how many content placeholders ({x}) the template has
HolesFor(input, x) ==
  Cardinality({<<i, j>> \in (1..Len(input.parts)) \X (1..MaxHoles) :
                 j <= Len(input.parts[i].holes) /\ input.parts[i].holes[j] = x})

\* C13: the fragment of a template holds one element carrying data-ref="x"
\* per content placeholder ({x}): exactly one for a single placeholder.
C13_OneMarkerPerPlaceholder ==
  compiled.done
    => \A x \in Idents :
         MarkersFor(compiled.fragment, x) = HolesFor(compiled.input, x)

\* a template with the placeholder ({userName}) inside an element that
\* binds an attribute to the same identifier, compiled
C13_Witness ==
  /\ compiled.done
  /\ HolesFor(compiled.input, n_userName) = 1
  /\ \E i \in 1..Len(compiled.input.parts) :
       \E j \in 1..Len(compiled.input.parts[i].binds) :
         compiled.input.parts[i].binds[j].x = n_userName
  /\ MarkersFor(compiled.fragment, n_userName) = 1

\* the elements of the fragment written from the parts, in order
PartElements(d) ==
  SelectSeq([i \in 1..Len(d) |-> i], LAMBDA i : d[i].tag \in PartTags)

\* the parts of a template that are elements, in order
ElementParts(input) == SelectSeq(input.parts, LAMBDA e : e.tag # <<>>)

\* C14: an element written with k="({x})" comes out with k="",
\* data-ref-k="x" and data-ref="", for each of its bindings, and the
\* fragment holds no span but those of the content placeholders.
C14_AttributeBinding ==
  compiled.done
    => LET d == compiled.fragment
           els == PartElements(d)
           parts == ElementParts(compiled.input)
       IN /\ Len(els) = Len(parts)
          /\ \A i \in 1..Len(parts) :
               \A j \in 1..Len(parts[i].binds) :
                 LET b == parts[i].binds[j]
                     n == d[els[i]]
                 IN /\ GetAttribute(n, b.k) = JStr(<<>>)
                    /\ GetAttribute(n, n_data_ref_ \o b.k) = JStr(b.x)
                    /\ GetAttribute(n, n_data_ref) = JStr(<<>>)
          /\ Cardinality({i \in 1..Len(d) : d[i].tag = <<"s","p","a","n">>})
               = Cardinality({<<i, j>> \in (1..Len(compiled.input.parts)) \X (1..MaxHoles) :
                                j <= Len(compiled.input.parts[i].holes)})

\* two elements with the same binding text title="({x})", compiled
C14_Witness ==
  /\ compiled.done
  /\ Len(compiled.input.parts) = 2
  /\ compiled.input.parts[1].binds = compiled.input.parts[2].binds
  /\ LET d == compiled.fragment
         els == PartElements(d)
     IN /\ Len(els) = 2
        /\ \A i \in 1..2 : GetAttr(d[els[i]], <<"d","a","t","a","-","r","e","f","-","t","i","t","l","e">>) = JStr(<<"x">>)
====
